---- MODULE Spec2Model ----
(***************************************************************************)
(* Model of magic-nix-cache's action API (src/api.rs): the three handlers  *)
(* workflow_start, workflow_finish and post_enqueue_paths, run by          *)
(* concurrent request tasks over the shared State.  Every `.await` of a    *)
(* handler is a step boundary; the code between two awaits is one action.  *)
(***************************************************************************)
EXTENDS Integers, Sequences, FiniteSets, TLC

\* ---------------------------------------------------------------- bounds
MaxCalls == 3          \* handler invocations in one behaviour
MaxStoreChanges == 1   \* store paths built or deleted by the environment

\* Two request tasks run the handlers concurrently.
Procs == {1, 2}
NoProc == 0

\* Canonical store paths, and the identifiers a request may carry: a
\* canonical path names itself, Link is a symlink to LinkTarget.
Paths == {"a", "b"}
Link == "l"
LinkTarget == "a"
Ids == Paths \cup {Link}

VARIABLES
    store,            \* the paths present in the Nix store (environment)
    gha_cache,        \* state.gha_cache is Some (fixed at construction)
    flakehub_state,   \* state.flakehub_state: "Some" or "None"
    fhReaders,        \* tasks holding flakehub_state's read lock
    fhWriter,         \* task holding flakehub_state's write lock, or NoProc
    shutdown_sender,  \* state.shutdown_sender: "Some" or "None"
    receiver,         \* the oneshot receiver is still alive
    notified,         \* shutdown notifications delivered to the receiver
    original_paths,   \* state.original_paths: the live snapshot
    opHolder,         \* task holding original_paths' mutex, or NoProc
    ghaPhase,         \* GHA backend: "idle", "draining", "drained", "failed"
    fhPhase,          \* FlakeHub push session: same phases
    ghaShutdowns,     \* calls of gha_cache.shutdown() so far
    pc,               \* each task's position
    op,               \* each task's handler: "none", "start", "finish", "enqueue"
    req,              \* enqueue: the request's store_paths (identifiers)
    store_paths,      \* the resolved list handed to enqueue_paths
    final_paths,      \* finish: the enumeration
    result,           \* "none" (running or never called), "ok", "err"
    reply,            \* the response body of a successful call
    ghaGot,           \* batches gha_cache.enqueue_paths was called with, this call
    fhGot,            \* batches flakehub::enqueue_paths was called with, this call
    counts,           \* finish: <<num_original_paths, num_final_paths, num_new_paths>>
    origSeen,         \* finish: the snapshot its diff read
    enumerated,       \* start: the enumeration it obtained
    fhAtCall,         \* enqueue: flakehub_state was Some when the call began
    lastStart,        \* <<snapshot replaced, enumeration>> of the last successful
                      \* start, <<>> if none
    calls,            \* handler invocations so far
    changes           \* store changes so far

vars == <<store, gha_cache, flakehub_state, fhReaders, fhWriter, shutdown_sender,
          receiver, notified, original_paths, opHolder, ghaPhase, fhPhase,
          ghaShutdowns, pc, op,
          req, store_paths, final_paths, result, reply, ghaGot, fhGot, counts,
          origSeen, enumerated, fhAtCall, lastStart, calls, changes>>

envVars == <<store, changes, gha_cache, receiver>>
fhLockVars == <<fhReaders, fhWriter>>
signalVars == <<shutdown_sender, notified>>
snapshotVars == <<original_paths, lastStart>>
phaseVars == <<ghaPhase, fhPhase, ghaShutdowns>>
enqLocals == <<req, store_paths, fhAtCall>>
finLocals == <<final_paths, counts, origSeen>>
gotVars == <<ghaGot, fhGot>>

\* ------------------------------------------------------------- helpers
Range(s) == {s[i] : i \in 1..Len(s)}

\* All orderings of a finite set (a HashSet iterates in arbitrary order).
Orderings(S) == {s \in [1..Cardinality(S) -> S] : Range(s) = S}


\* ------------------------------------------------------------ resolver
\* store.follow_store_path: canonicalises the identifier (following a
\* symlink) and fails when the target is not present in the store.
Canonical(id) == IF id = Link THEN LinkTarget ELSE id

follow_store_path(id, st) ==
    [ok |-> Canonical(id) \in st, path |-> Canonical(id)]

\* crate::util::get_store_paths: the set of paths present in the store.
get_store_paths(st) == st

\* Mutant: the identifiers that fail to resolve are dropped, not reported.
ResolveAllPartial(ids, st) ==
    [ok |-> TRUE,
     paths |-> LET good == SelectSeq(ids, LAMBDA id : follow_store_path(id, st).ok)
               IN [i \in 1..Len(good) |-> follow_store_path(good[i], st).path]]

\* Mutant: the identifiers are passed on as given, not as resolved.
ResolveAllRaw(ids, st) ==
    IF \A i \in 1..Len(ids) : follow_store_path(ids[i], st).ok
    THEN [ok |-> TRUE, paths |-> ids]
    ELSE [ok |-> FALSE, paths |-> <<>>]

\* Mutant: a new path that fails to resolve is passed on unresolved.
ResolveAllUnchecked(ids, st) ==
    [ok |-> TRUE, paths |-> [i \in 1..Len(ids) |-> follow_store_path(ids[i], st).path]]

\* .map(follow_store_path).collect::<Result<Vec<_>>>()? : the resolved list,
\* element by element and in order, or the error of the first failure.
ResolveAll(ids, st) ==
    IF \A i \in 1..Len(ids) : follow_store_path(ids[i], st).ok
    THEN [ok |-> TRUE, paths |-> [i \in 1..Len(ids) |-> follow_store_path(ids[i], st).path]]
    ELSE [ok |-> FALSE, paths |-> <<>>]

\* Mutant: the whole final enumeration is taken as new.
DifferenceNone(final, original) == final

\* final_paths.difference(&original_paths)
Difference(final, original) == final \ original

\* Mutant: the enumeration is added to the snapshot.
InstallExtend(old, new) == old \cup new

\* *original_paths = <enumeration>: the assignment replaces the snapshot.
Install(old, new) == new

\* Mutant: the sender is read but left in place.
TakeSenderKeep(s) == s

\* state.shutdown_sender.lock().await.take(): what the Option holds afterwards.
TakeSender(s) == "None"

\* Mutant: the number of final paths is reported as the number of new ones.
CountsNewAsFinal(original, final, new) ==
    <<Cardinality(original), Cardinality(final), Cardinality(final)>>

\* num_original_paths, num_final_paths, num_new_paths (lines 65-67).
Counts(original, final, new) ==
    <<Cardinality(original), Cardinality(final), Len(new)>>

\* Mutant: finish takes the snapshot out of the state, leaving it empty.
ReadSnapshotTake(old) == {}

\* let original_paths = state.original_paths.lock().await (line 57): finish
\* only reads through the guard; what the snapshot holds afterwards.
ReadSnapshot(old) == old

\* Mutant: the guard on original_paths is dropped once the counts are taken.
GuardAfterDiffDropped(p) == NoProc

\* The holder of original_paths' mutex after the diff: the guard of line 57
\* lives to the end of workflow_finish.
GuardAfterDiff(p) == p

\* state.flakehub_state.write().await.take() (line 85): what the Option
\* holds afterwards.
TakeFlakehub(s) == "None"

\* Mutant: the read guard outlives the FlakeHub enqueue.
ReleaseReadLeak(readers, p) == readers

\* The read guard of line 147 is dropped at the end of the `if let` (150).
ReleaseRead(readers, p) == readers \ {p}

\* The store_paths lists a request may carry: the empty list, two paths out
\* of store order, and a symlink beside its own target.
Reqs == {<<>>, <<"b", "a">>, <<Link, LinkTarget>>}


\* ----------------------------------------------------------------- Init
Init ==
    /\ store \in SUBSET Paths
    /\ gha_cache \in BOOLEAN
    /\ flakehub_state \in {"Some", "None"}
    /\ receiver \in BOOLEAN
    /\ fhReaders = {}
    /\ fhWriter = NoProc
    /\ shutdown_sender = "Some"
    /\ notified = 0
    /\ original_paths = {}
    /\ opHolder = NoProc
    /\ ghaPhase = "idle"
    /\ fhPhase = "idle"
    /\ ghaShutdowns = 0
    /\ pc = [p \in Procs |-> "idle"]
    /\ op = [p \in Procs |-> "none"]
    /\ req = [p \in Procs |-> <<>>]
    /\ store_paths = [p \in Procs |-> <<>>]
    /\ final_paths = [p \in Procs |-> {}]
    /\ result = [p \in Procs |-> "none"]
    /\ reply = [p \in Procs |-> <<>>]
    /\ ghaGot = [p \in Procs |-> <<>>]
    /\ fhGot = [p \in Procs |-> <<>>]
    /\ counts = [p \in Procs |-> <<>>]
    /\ origSeen = [p \in Procs |-> {}]
    /\ enumerated = [p \in Procs |-> {}]
    /\ fhAtCall = [p \in Procs |-> FALSE]
    /\ lastStart = <<>>
    /\ calls = 0
    /\ changes = 0

\* A returned call's response is observed before anything else happens.
Quiet == \A q \in Procs : pc[q] # "done"

At(p, label) == Quiet /\ pc[p] = label

\* A handler is invoked on an idle task.  Idle tasks are interchangeable,
\* so a request takes the lowest idle one.
Begin(p, o, first, res) ==
    /\ At(p, "idle")
    /\ \A q \in Procs : q < p => pc[q] # "idle"
    /\ calls < MaxCalls
    /\ calls' = calls + 1
    /\ op' = [op EXCEPT ![p] = o]
    /\ pc' = [pc EXCEPT ![p] = first]
    /\ result' = [result EXCEPT ![p] = res]
    /\ UNCHANGED <<reply, gotVars, finLocals, enumerated>>

\* The response leaves the handler: the task and its locals are free again.
Respond(p) ==
    /\ pc[p] = "done"
    /\ pc' = [pc EXCEPT ![p] = "idle"]
    /\ op' = [op EXCEPT ![p] = "none"]
    /\ result' = [result EXCEPT ![p] = "none"]
    /\ reply' = [reply EXCEPT ![p] = <<>>]
    /\ req' = [req EXCEPT ![p] = <<>>]
    /\ store_paths' = [store_paths EXCEPT ![p] = <<>>]
    /\ fhAtCall' = [fhAtCall EXCEPT ![p] = FALSE]
    /\ ghaGot' = [ghaGot EXCEPT ![p] = <<>>]
    /\ fhGot' = [fhGot EXCEPT ![p] = <<>>]
    /\ final_paths' = [final_paths EXCEPT ![p] = {}]
    /\ counts' = [counts EXCEPT ![p] = <<>>]
    /\ origSeen' = [origSeen EXCEPT ![p] = {}]
    /\ enumerated' = [enumerated EXCEPT ![p] = {}]
    /\ UNCHANGED <<envVars, flakehub_state, fhLockVars, signalVars, snapshotVars,
                   opHolder, phaseVars, calls>>

\* The environment builds or deletes a store path.
StoreChange ==
    /\ Quiet
    /\ changes < MaxStoreChanges
    /\ changes' = changes + 1
    /\ \E x \in Paths : store' = IF x \in store THEN store \ {x} ELSE store \cup {x}
    /\ UNCHANGED <<gha_cache, receiver, flakehub_state, fhLockVars, signalVars,
                   snapshotVars, opHolder, phaseVars, pc, op, result, reply,
                   enqLocals, finLocals, gotVars, enumerated, calls>>

\* ------------------------------------------------------- workflow_start
\* The request arrives (line 34-35).
StartCall(p) ==
    /\ Begin(p, "start", "s_lock", "none")
    /\ UNCHANGED enqLocals
    /\ UNCHANGED <<envVars, flakehub_state, fhLockVars, signalVars, snapshotVars,
                   opHolder, phaseVars>>

\* state.original_paths.lock().await (line 36).
StartLock(p) ==
    /\ At(p, "s_lock")
    /\ opHolder = NoProc
    /\ opHolder' = p
    /\ pc' = [pc EXCEPT ![p] = "s_enum"]
    /\ UNCHANGED <<envVars, flakehub_state, fhLockVars, signalVars, snapshotVars,
                   phaseVars, op, result, reply, enqLocals, finLocals, gotVars,
                   enumerated, calls>>

\* get_store_paths(..).await? succeeds: assign, reply, drop the guard (37-48).
StartEnumOk(p) ==
    /\ At(p, "s_enum")
    /\ enumerated' = [enumerated EXCEPT ![p] = get_store_paths(store)]
    /\ original_paths' = Install(original_paths, get_store_paths(store))
    /\ lastStart' = <<original_paths, get_store_paths(store)>>
    /\ reply' = [reply EXCEPT ![p] = <<Cardinality(original_paths')>>]
    /\ result' = [result EXCEPT ![p] = "ok"]
    /\ pc' = [pc EXCEPT ![p] = "done"]
    /\ opHolder' = NoProc
    /\ UNCHANGED <<envVars, flakehub_state, fhLockVars, signalVars, phaseVars, op,
                   enqLocals, finLocals, gotVars, calls>>

\* Mutant: a failed enumeration installs an empty snapshot.
SnapshotOnEnumErrorClear(old) == {}

\* What the snapshot holds after a failed enumeration: `?` returns before
\* the assignment of line 37 happens.
SnapshotOnEnumError(old) == old

\* get_store_paths(..).await? fails: the error is returned (line 37).
StartEnumErr(p) ==
    /\ At(p, "s_enum")
    /\ original_paths' = SnapshotOnEnumError(original_paths)
    /\ result' = [result EXCEPT ![p] = "err"]
    /\ pc' = [pc EXCEPT ![p] = "done"]
    /\ opHolder' = NoProc
    /\ UNCHANGED <<envVars, flakehub_state, fhLockVars, signalVars, lastStart,
                   phaseVars, op, reply, enqLocals, finLocals, gotVars, enumerated,
                   calls>>

\* --------------------------------------------------------- enqueue_paths
\* enqueue_paths returns to its caller: post_enqueue_paths replies (135-137),
\* workflow_finish goes on to the shutdowns or returns the error (line 72).
EnqueueReturn(p, ok) ==
    /\ pc' = [pc EXCEPT ![p] = IF ok /\ op[p] = "finish" THEN "f_gha" ELSE "done"]
    /\ result' = [result EXCEPT ![p] =
                     IF ~ok THEN "err" ELSE IF op[p] = "finish" THEN "none" ELSE "ok"]
    /\ opHolder' = IF ~ok /\ op[p] = "finish" THEN NoProc ELSE opHolder

\* if let Some(gha_cache) = &state.gha_cache { gha_cache.enqueue_paths(..).await?; }
\* (lines 141-145); the backend accepts the batch or reports an error.
EnqueueGha(p) ==
    /\ At(p, "q_gha")
    /\ \/ /\ gha_cache
          /\ ghaGot' = [ghaGot EXCEPT ![p] = Append(@, store_paths[p])]
          /\ \/ /\ pc' = [pc EXCEPT ![p] = "q_fh"]
                /\ UNCHANGED <<result, opHolder>>
             \/ EnqueueReturn(p, FALSE)
       \/ /\ ~gha_cache
          /\ pc' = [pc EXCEPT ![p] = "q_fh"]
          /\ UNCHANGED <<ghaGot, result, opHolder>>
    /\ UNCHANGED <<envVars, flakehub_state, fhLockVars, signalVars, snapshotVars,
                   phaseVars, op, reply, enqLocals, finLocals, fhGot, enumerated,
                   calls>>

\* state.flakehub_state.read().await (line 147): the read guard is taken when
\* no writer holds the lock; with None inside, enqueue_paths returns Ok (152).
EnqueueFhRead(p) ==
    /\ At(p, "q_fh")
    /\ fhWriter = NoProc
    /\ \/ /\ flakehub_state = "Some"
          /\ fhReaders' = fhReaders \cup {p}
          /\ pc' = [pc EXCEPT ![p] = "q_fh_call"]
          /\ UNCHANGED <<result, opHolder>>
       \/ /\ flakehub_state = "None"
          /\ EnqueueReturn(p, TRUE)
          /\ UNCHANGED fhReaders
    /\ UNCHANGED <<envVars, flakehub_state, fhWriter, signalVars, snapshotVars,
                   phaseVars, op, reply, enqLocals, finLocals, gotVars, enumerated,
                   calls>>

\* crate::flakehub::enqueue_paths(flakehub_state, store_paths).await? (149):
\* accepted or an error; the read guard is dropped either way.
EnqueueFhCall(p) ==
    /\ At(p, "q_fh_call")
    /\ fhGot' = [fhGot EXCEPT ![p] = Append(@, store_paths[p])]
    /\ fhReaders' = ReleaseRead(fhReaders, p)
    /\ \E ok \in BOOLEAN : EnqueueReturn(p, ok)
    /\ UNCHANGED <<envVars, flakehub_state, fhWriter, signalVars, snapshotVars,
                   phaseVars, op, reply, enqLocals, finLocals, ghaGot, enumerated,
                   calls>>

\* ---------------------------------------------------- post_enqueue_paths
\* The request arrives and its identifiers are resolved (lines 123-133): on
\* success the list goes to enqueue_paths, on failure the error is returned.
PostEnqueuePaths(p) ==
    \E r \in Reqs :
        /\ IF ResolveAll(r, store).ok
           THEN Begin(p, "enqueue", "q_gha", "none")
           ELSE Begin(p, "enqueue", "done", "err")
        /\ req' = [req EXCEPT ![p] = r]
        /\ store_paths' = [store_paths EXCEPT ![p] = ResolveAll(r, store).paths]
        /\ fhAtCall' = [fhAtCall EXCEPT ![p] = flakehub_state = "Some"]
        /\ UNCHANGED <<envVars, flakehub_state, fhLockVars, signalVars, snapshotVars,
                       opHolder, phaseVars>>

\* ------------------------------------------------------ workflow_finish
\* The request arrives (lines 52-55).
FinishCall(p) ==
    /\ Begin(p, "finish", "f_lock", "none")
    /\ UNCHANGED enqLocals
    /\ UNCHANGED <<envVars, flakehub_state, fhLockVars, signalVars, snapshotVars,
                   opHolder, phaseVars>>

\* state.original_paths.lock().await (line 57); the guard lives to the end.
FinishLock(p) ==
    /\ At(p, "f_lock")
    /\ opHolder = NoProc
    /\ opHolder' = p
    /\ pc' = [pc EXCEPT ![p] = "f_enum"]
    /\ UNCHANGED <<envVars, flakehub_state, fhLockVars, signalVars, snapshotVars,
                   phaseVars, op, result, reply, enqLocals, finLocals, gotVars,
                   enumerated, calls>>

\* An error return of workflow_finish: the guard on original_paths is dropped.
FinishErr(p) ==
    /\ pc' = [pc EXCEPT ![p] = "done"]
    /\ result' = [result EXCEPT ![p] = "err"]
    /\ opHolder' = NoProc

\* get_store_paths(&state.store).await? (line 58).
FinishEnum(p) ==
    /\ At(p, "f_enum")
    /\ \/ /\ final_paths' = [final_paths EXCEPT ![p] = get_store_paths(store)]
          /\ pc' = [pc EXCEPT ![p] = "f_diff"]
          /\ UNCHANGED <<result, opHolder>>
       \/ /\ FinishErr(p)
          /\ UNCHANGED final_paths
    /\ UNCHANGED <<envVars, flakehub_state, fhLockVars, signalVars, snapshotVars,
                   phaseVars, op, reply, enqLocals, counts, origSeen, gotVars,
                   enumerated, calls>>

\* The diff, the resolution of every new path and the three counts (59-67);
\* the difference iterates in an arbitrary order.
FinishDiff(p) ==
    /\ At(p, "f_diff")
    /\ origSeen' = [origSeen EXCEPT ![p] = original_paths]
    /\ \E o \in Orderings(Difference(final_paths[p], original_paths)) :
          IF ResolveAll(o, store).ok
          THEN /\ store_paths' = [store_paths EXCEPT ![p] = ResolveAll(o, store).paths]
               /\ counts' = [counts EXCEPT ![p] =
                                Counts(original_paths, final_paths[p],
                                       ResolveAll(o, store).paths)]
               /\ pc' = [pc EXCEPT ![p] = "q_gha"]
               /\ opHolder' = GuardAfterDiff(p)
               /\ UNCHANGED result
          ELSE /\ FinishErr(p)
               /\ UNCHANGED <<store_paths, counts>>
    /\ original_paths' = ReadSnapshot(original_paths)
    /\ UNCHANGED <<envVars, flakehub_state, fhLockVars, signalVars, lastStart,
                   phaseVars, op, reply, req, fhAtCall, final_paths, gotVars,
                   enumerated, calls>>

\* gha_cache.shutdown() is called (lines 74-76): the drain begins.
FinishGhaShutdown(p) ==
    /\ At(p, "f_gha")
    /\ \/ /\ gha_cache
          /\ ghaPhase' = IF ghaPhase = "drained" THEN "drained" ELSE "draining"
          /\ ghaShutdowns' = ghaShutdowns + 1
          /\ pc' = [pc EXCEPT ![p] = "f_gha_wait"]
       \/ /\ ~gha_cache
          /\ pc' = [pc EXCEPT ![p] = "f_signal"]
          /\ UNCHANGED <<ghaPhase, ghaShutdowns>>
    /\ UNCHANGED <<envVars, flakehub_state, fhLockVars, signalVars, snapshotVars,
                   opHolder, fhPhase, op, result, reply, enqLocals, finLocals,
                   gotVars, enumerated, calls>>

\* gha_cache.shutdown().await? completes (line 76): drained, or an error
\* that workflow_finish returns.
FinishGhaWait(p) ==
    /\ At(p, "f_gha_wait")
    /\ \/ /\ ghaPhase' = "drained"
          /\ pc' = [pc EXCEPT ![p] = "f_signal"]
          /\ UNCHANGED <<result, opHolder>>
       \/ /\ ghaPhase' = IF ghaPhase = "drained" THEN "drained" ELSE "failed"
          /\ FinishErr(p)
    /\ UNCHANGED <<envVars, flakehub_state, fhLockVars, signalVars, snapshotVars,
                   fhPhase, ghaShutdowns, op, reply, enqLocals, finLocals, gotVars,
                   enumerated, calls>>

\* state.shutdown_sender.lock().await.take() and sender.send(()) (79-83):
\* no await separates the take from the send.
FinishSignal(p) ==
    /\ At(p, "f_signal")
    /\ \/ /\ shutdown_sender = "Some"
          /\ shutdown_sender' = TakeSender(shutdown_sender)
          /\ \/ /\ receiver
                /\ notified' = notified + 1
                /\ pc' = [pc EXCEPT ![p] = "f_fh"]
                /\ UNCHANGED <<result, opHolder>>
             \/ /\ ~receiver
                /\ FinishErr(p)
                /\ UNCHANGED notified
       \/ /\ shutdown_sender = "None"
          /\ pc' = [pc EXCEPT ![p] = "f_fh"]
          /\ UNCHANGED <<signalVars, result, opHolder>>
    /\ UNCHANGED <<envVars, flakehub_state, fhLockVars, snapshotVars, phaseVars,
                   op, reply, enqLocals, finLocals, gotVars, enumerated, calls>>

\* state.flakehub_state.write().await.take() (line 85): the write guard needs
\* the lock free of readers and writers, and is held across the wait.
FinishFhTake(p) ==
    /\ At(p, "f_fh")
    /\ fhWriter = NoProc
    /\ fhReaders = {}
    /\ \/ /\ flakehub_state = "Some"
          /\ flakehub_state' = TakeFlakehub(flakehub_state)
          /\ fhWriter' = p
          /\ fhPhase' = "draining"
          /\ pc' = [pc EXCEPT ![p] = "f_fh_wait"]
       \/ /\ flakehub_state = "None"
          /\ pc' = [pc EXCEPT ![p] = "f_log"]
          /\ UNCHANGED <<flakehub_state, fhWriter, fhPhase>>
    /\ UNCHANGED <<envVars, fhReaders, signalVars, snapshotVars, opHolder, ghaPhase,
                   ghaShutdowns, op, result, reply, enqLocals, finLocals, gotVars,
                   enumerated, calls>>

\* attic_state.push_session.wait().await? completes (line 87).
FinishFhWait(p) ==
    /\ At(p, "f_fh_wait")
    /\ fhWriter' = NoProc
    /\ \/ /\ fhPhase' = "drained"
          /\ pc' = [pc EXCEPT ![p] = "f_log"]
          /\ UNCHANGED <<result, opHolder>>
       \/ /\ fhPhase' = "failed"
          /\ FinishErr(p)
    /\ UNCHANGED <<envVars, flakehub_state, fhReaders, signalVars, snapshotVars,
                   ghaPhase, ghaShutdowns, op, reply, enqLocals, finLocals, gotVars,
                   enumerated, calls>>

\* The log file is read back (`?`, line 93) and the reply is built from the
\* counts taken at lines 65-67 (lines 92-110).
FinishReply(p) ==
    /\ At(p, "f_log")
    /\ \/ /\ reply' = [reply EXCEPT ![p] = counts[p]]
          /\ result' = [result EXCEPT ![p] = "ok"]
          /\ pc' = [pc EXCEPT ![p] = "done"]
          /\ opHolder' = NoProc
       \/ /\ FinishErr(p)
          /\ UNCHANGED reply
    /\ UNCHANGED <<envVars, flakehub_state, fhLockVars, signalVars, snapshotVars,
                   phaseVars, op, enqLocals, finLocals, gotVars, enumerated, calls>>

\* ------------------------------------------------------------------ Next
Next ==
    \/ StoreChange
    \/ \E p \in Procs :
          \/ Respond(p)
          \/ StartCall(p) \/ StartLock(p) \/ StartEnumOk(p) \/ StartEnumErr(p)
          \/ PostEnqueuePaths(p)
          \/ EnqueueGha(p) \/ EnqueueFhRead(p) \/ EnqueueFhCall(p)
          \/ FinishCall(p) \/ FinishLock(p) \/ FinishEnum(p) \/ FinishDiff(p)
          \/ FinishGhaShutdown(p) \/ FinishGhaWait(p) \/ FinishSignal(p)
          \/ FinishFhTake(p) \/ FinishFhWait(p) \/ FinishReply(p)

Spec == Init /\ [][Next]_vars

\* The steps of a call in progress on task p: everything up to its response.
\* Accepting a new request is no part of it: no request need ever arrive.
Step(p) ==
    \/ Respond(p)
    \/ StartLock(p) \/ StartEnumOk(p) \/ StartEnumErr(p)
    \/ EnqueueGha(p) \/ EnqueueFhRead(p) \/ EnqueueFhCall(p)
    \/ FinishLock(p) \/ FinishEnum(p) \/ FinishDiff(p)
    \/ FinishGhaShutdown(p) \/ FinishGhaWait(p) \/ FinishSignal(p)
    \/ FinishFhTake(p) \/ FinishFhWait(p) \/ FinishReply(p)

\* The runtime polls every spawned task that can make progress, and the
\* resolver and the backend calls terminate.
FairSpec == Spec /\ \A p \in Procs : WF_vars(Step(p))

\* ------------------------------------------------------------ properties
\* Task p's call of handler o has returned with result r.
Returned(p, o, r) == pc[p] = "done" /\ op[p] = o /\ result[p] = r

\* The list an enqueue request resolves to: canonical paths, in request order.
Resolved(ids) == [i \in 1..Len(ids) |-> Canonical(ids[i])]

\* Task p runs workflow_finish and is past the diff of lines 59-67.
Diffed(p) == op[p] = "finish" /\ counts[p] # <<>>

\* C1: the new set workflow_finish computes and hands to the backends is
\* exactly final minus original: inside final, disjoint from the snapshot
\* held at that moment.
C1_NewIsFinalMinusOriginal ==
    \A p \in Procs :
        Diffed(p) =>
            LET new == Range(store_paths[p])
                handed == Range(ghaGot[p]) \cup Range(fhGot[p])
            IN /\ origSeen[p] = original_paths
               /\ new = final_paths[p] \ original_paths
               /\ new \subseteq final_paths[p]
               /\ new \cap original_paths = {}
               /\ \A b \in handed : Range(b) = final_paths[p] \ original_paths

\* A finish handed a non-empty diff to a backend although the snapshot and
\* the final enumeration overlap.
C1_Witness ==
    \E p \in Procs :
        /\ Diffed(p)
        /\ ghaGot[p] # <<>>
        /\ store_paths[p] # <<>>
        /\ final_paths[p] \cap origSeen[p] # {}

\* FlakeHub was configured: its state is still there, or a finish took it.
FlakeHubConfigured == flakehub_state = "Some" \/ fhPhase # "idle"

\* C2: the shutdown notification has been delivered only when the drain of
\* every configured backend (GHA and FlakeHub) has completed.
C2_SignalAfterEveryDrain ==
    notified > 0 =>
        /\ gha_cache => ghaPhase = "drained"
        /\ FlakeHubConfigured => fhPhase = "drained"

\* C3: in the fan-out a failure of one backend's enqueue does not keep the
\* other configured backend from being attempted: an enqueue call that
\* reached GHA has, when it returns, reached a configured FlakeHub too.
C3_FanOutReachesEveryBackend ==
    \A p \in Procs :
        (/\ pc[p] = "done"
         /\ op[p] = "enqueue"
         /\ ghaGot[p] # <<>>
         /\ flakehub_state = "Some") => fhGot[p] # <<>>

\* C4: when workflow_finish returns because the GHA shutdown failed, the
\* drain of a configured FlakeHub has still been triggered (its state taken).
C4_DrainSurvivesGhaFailure ==
    [][\A p \in Procs :
          (pc[p] = "f_gha_wait" /\ pc'[p] = "done") => flakehub_state' = "None"]_vars

\* Some identifier of the list does not resolve in store st.
Unresolvable(ids, st) == \E i \in 1..Len(ids) : Canonical(ids[i]) \notin st

\* C5: an enqueue request with an identifier that fails to resolve returns
\* an error at once and no backend receives any path of it.
C5_ResolutionFailFast ==
    [][\A p \in Procs :
          (pc[p] = "idle" /\ op'[p] = "enqueue" /\ Unresolvable(req'[p], store)) =>
              /\ Returned(p, "enqueue", "err")'
              /\ ghaGot'[p] = <<>>
              /\ fhGot'[p] = <<>>
              /\ store_paths'[p] = <<>>]_vars

\* An enqueue failed on resolution with a backend configured, although one
\* of its identifiers did resolve.
C5_Witness ==
    \E p \in Procs :
        /\ Returned(p, "enqueue", "err")
        /\ gha_cache
        /\ ghaGot[p] = <<>>
        /\ Unresolvable(req[p], store)
        /\ \E i \in 1..Len(req[p]) : Canonical(req[p][i]) \in store

\* C6 as stated: on success every backend configured when the call began
\* accepted exactly one batch, the resolved list.
C6_EveryBackendAtCallGotBatch ==
    \A p \in Procs :
        Returned(p, "enqueue", "ok") =>
            /\ ghaGot[p] = IF gha_cache THEN <<Resolved(req[p])>> ELSE <<>>
            /\ fhGot[p] = IF fhAtCall[p] THEN <<Resolved(req[p])>> ELSE <<>>

\* C6 as amended: on success every backend still configured when the
\* fan-out reached it accepted exactly one batch, the resolved list (same
\* elements, same order, duplicates kept); a FlakeHub whose state a finish
\* took after the call began received nothing.
C6_EveryBackendAtFanOutGotBatch ==
    \A p \in Procs :
        Returned(p, "enqueue", "ok") =>
            /\ ghaGot[p] = IF gha_cache THEN <<Resolved(req[p])>> ELSE <<>>
            /\ fhGot[p] \in {<<>>, <<Resolved(req[p])>>}
            /\ flakehub_state = "Some" => fhGot[p] = <<Resolved(req[p])>>
            /\ ~fhAtCall[p] => fhGot[p] = <<>>

\* A successful enqueue of a symlink beside its target reached both backends.
C6_Witness ==
    \E p \in Procs :
        /\ Returned(p, "enqueue", "ok")
        /\ req[p] = <<Link, LinkTarget>>
        /\ ghaGot[p] = <<<<LinkTarget, LinkTarget>>>>
        /\ fhGot[p] = <<<<LinkTarget, LinkTarget>>>>

\* C7: the shutdown notification is delivered at most once: once delivered
\* the sender is gone, and a take never blocks.
C7_NotifiedAtMostOnce ==
    /\ notified <= 1
    /\ notified > 0 => shutdown_sender = "None"
    /\ \A p \in Procs : At(p, "f_signal") => ENABLED FinishSignal(p)

\* A later finish has passed the take after an earlier finish delivered the
\* notification and went on to FlakeHub.
C7_Witness ==
    \E p \in Procs :
        /\ pc[p] = "f_fh"
        /\ notified = 1
        /\ fhPhase \in {"drained", "failed"}

\* C8: after successful starts the live snapshot is exactly the enumeration
\* of the last one to write, and the count a start returns is the size of
\* the enumeration it obtained.
C8_SnapshotIsLastStart ==
    /\ lastStart # <<>> => original_paths = lastStart[2]
    /\ \A p \in Procs :
          Returned(p, "start", "ok") =>
              /\ original_paths = enumerated[p]
              /\ reply[p] = <<Cardinality(enumerated[p])>>

\* A start returned after replacing a snapshot holding a path that its own
\* enumeration lacks.
C8_Witness ==
    \E p \in Procs :
        /\ Returned(p, "start", "ok")
        /\ lastStart # <<>>
        /\ lastStart[1] \ lastStart[2] # {}

\* C9: a start whose enumeration fails returns the error and leaves the
\* snapshot as it was.
C9_FailedStartKeepsSnapshot ==
    [][\A p \in Procs :
          (pc[p] = "s_enum" /\ result'[p] = "err") =>
              /\ original_paths' = original_paths
              /\ Returned(p, "start", "err")']_vars

\* A start failed while the snapshot was non-empty and differed from the store.
C9_Witness ==
    \E p \in Procs :
        /\ Returned(p, "start", "err")
        /\ original_paths # {}
        /\ original_paths # store

\* C10: enqueue with an empty path list returns success and no backend
\* receives an enqueue call.
C10_EmptyEnqueueIsNoOp ==
    \A p \in Procs :
        (pc[p] = "done" /\ op[p] = "enqueue" /\ req[p] = <<>>) =>
            /\ result[p] = "ok"
            /\ ghaGot[p] = <<>>
            /\ fhGot[p] = <<>>

\* The snapshot the last successful start installed; empty before any start.
LastInstalled == IF lastStart = <<>> THEN {} ELSE lastStart[2]

\* C11: a successful finish reports the size of the snapshot the last
\* successful start installed, the size of its own enumeration and the size
\* of their difference, whatever enqueue calls were made meanwhile.
C11_FinishReportsCounts ==
    \A p \in Procs :
        Returned(p, "finish", "ok") =>
            reply[p] = <<Cardinality(LastInstalled),
                         Cardinality(final_paths[p]),
                         Cardinality(final_paths[p] \ LastInstalled)>>

\* A finish after a start reported old and new paths while an enqueue call
\* had already handed a non-empty batch to the GHA cache.
C11_Witness ==
    \E p \in Procs, q \in Procs :
        /\ Returned(p, "finish", "ok")
        /\ lastStart # <<>>
        /\ reply[p][1] >= 1
        /\ reply[p][3] >= 1
        /\ op[q] = "enqueue"
        /\ ghaGot[q] # <<>>
        /\ ghaGot[q][1] # <<>>

\* A path of finish's diff is no longer in the store: it fails to resolve.
DiffUnresolvable(p) == \E x \in final_paths[p] \ original_paths : x \notin store

\* C12: when the enumeration or the resolution of a new path fails, finish
\* returns the error with no batch handed to a backend, no shutdown
\* triggered and the shutdown sender untouched.
C12_FinishFailsBeforeBackends ==
    [][\A p \in Procs :
          (\/ pc[p] = "f_enum" /\ pc'[p] = "done"
           \/ pc[p] = "f_diff" /\ pc'[p] # "f_diff" /\ DiffUnresolvable(p)) =>
              /\ Returned(p, "finish", "err")'
              /\ ghaGot'[p] = <<>>
              /\ fhGot'[p] = <<>>
              /\ UNCHANGED <<ghaPhase, fhPhase, ghaShutdowns, flakehub_state,
                             shutdown_sender, notified>>]_vars

\* A finish failed on resolving a new path with both backends configured
\* and the sender still in place.
C12_Witness ==
    \E p \in Procs :
        /\ Returned(p, "finish", "err")
        /\ counts[p] = <<>>
        /\ DiffUnresolvable(p)
        /\ gha_cache
        /\ flakehub_state = "Some"
        /\ shutdown_sender = "Some"
        /\ ghaShutdowns = 0

\* C13: while a start's store enumeration is in progress the snapshot lock
\* is free.
C13_EnumerationOutsideLock ==
    \A p \in Procs : pc[p] = "s_enum" => opHolder = NoProc

\* C14: with both backends configured, FlakeHub's drain has been triggered
\* by the time finish waits on the GHA drain.
C14_TriggersBeforeWaits ==
    \A p \in Procs :
        (pc[p] = "f_gha_wait" /\ FlakeHubConfigured) => fhPhase # "idle"

\* C15: the live snapshot changes only in the step in which a start returns
\* success, so it always is what the last successful start installed.
C15_OnlyStartChangesSnapshot ==
    [][/\ original_paths' # original_paths =>
              \E p \in Procs : pc[p] = "s_enum" /\ Returned(p, "start", "ok")'
       /\ original_paths' = LastInstalled']_vars

\* A finish with a non-empty diff returned and the snapshot is still there.
C15_Witness ==
    \E p \in Procs :
        /\ Returned(p, "finish", "ok")
        /\ store_paths[p] # <<>>
        /\ original_paths # {}

\* C16: a shutdown notification that cannot be delivered (no listener) does
\* not end finish: it goes on to the FlakeHub completion.
C16_SignalFailureNonFatal ==
    [][\A p \in Procs :
          (pc[p] = "f_signal" /\ pc'[p] # "f_signal" /\ ~receiver) =>
              pc'[p] = "f_fh"]_vars

\* C17: over all finish calls the GHA cache's shutdown is invoked at most
\* once (FlakeHub's is, its state being taken).
C17_ShutdownAtMostOnce == ghaShutdowns <= 1

\* C18: no backend is handed a batch once finish has triggered that
\* backend's shutdown: a batch reaches a backend only while it is idle.
C18_NoBatchAfterDrain ==
    [][\A p \in Procs :
          /\ Len(ghaGot'[p]) > Len(ghaGot[p]) => ghaPhase = "idle"
          /\ Len(fhGot'[p]) > Len(fhGot[p]) => fhPhase = "idle"]_vars

\* C19: finish holds the snapshot lock from its first step to its return: a
\* concurrent start waits for the lock, and the counts, the diff and the
\* reply come from the one snapshot value that is still the live one.
C19_FinishHoldsSnapshotLock ==
    \A p \in Procs :
        /\ (op[p] = "finish" /\ pc[p] \notin {"f_lock", "done"}) =>
              /\ opHolder = p
              /\ \A q \in Procs : op[q] = "start" => pc[q] = "s_lock"
        /\ Diffed(p) =>
              /\ origSeen[p] = original_paths
              /\ counts[p][1] = Cardinality(original_paths)
              /\ counts[p][3] = Cardinality(final_paths[p] \ original_paths)
        /\ Returned(p, "finish", "ok") => reply[p] = counts[p]

\* A start waits for the lock while finish waits for the GHA drain.
C19_Witness ==
    \E p \in Procs, q \in Procs :
        /\ pc[p] = "f_gha_wait"
        /\ op[q] = "start"
        /\ pc[q] = "s_lock"

\* C20: under fair scheduling every start, enqueue and finish call in
\* progress eventually returns: no task waits for a lock for ever.
C20_EveryCallReturns ==
    \A p \in Procs : (pc[p] # "idle") ~> (pc[p] = "idle")

\* An enqueue waits for the FlakeHub read lock while a finish, holding both
\* the snapshot mutex and the write lock, waits for the push session.
C20_Witness ==
    \E p \in Procs, q \in Procs :
        /\ pc[p] = "q_fh"
        /\ pc[q] = "f_fh_wait"
        /\ fhWriter = q
        /\ opHolder = q

====
